---- MODULE Spec2Model ----
(***************************************************************************)
(* RustMedia: the media catalog (media_items, media_folders and the        *)
(* update_folder_stats trigger), the chunked-upload tables with            *)
(* cleanup_expired_uploads, and the browser upload queue                   *)
(* (RustMedia.Upload) with the API client it calls (RustMedia.API).        *)
(***************************************************************************)
EXTENDS Integers, Sequences, FiniteSets, TLC

(***************************************************************************)
(* Bounds of the model.                                                    *)
(***************************************************************************)
MaxSize == 2           \* media_items.size ranges over 1..MaxSize
MaxSizeUpdates == 1    \* UPDATEs of media_items.size in one behaviour
MaxHashes == 2         \* distinct byte contents (content_hash values)
MaxChunks == 2         \* total_chunks of a chunked upload ranges over 1..MaxChunks
MaxTime == 3           \* the clock runs from 1 to MaxTime
MaxFileSize == 4       \* config.maxFileSize; files of 1..MaxFileSize+1 bytes are offered
MaxSliceSize == 8      \* file and chunk sizes of the slicing range over 1..MaxSliceSize
MaxBulk == 3           \* ids passed to one call of Actions.delete

NULL == 0              \* SQL NULL in a nullable id column

ItemIds == {1, 2}                \* media_items ids in use at once
FolderIds == {1, 2}              \* media_folders ids in use at once
Sizes == 1..MaxSize
Hashes == 1..MaxHashes
Requests == {"r1", "r2"}        \* upload requests the server handles at once
UploadIds == {1, 2}              \* media_chunked_uploads ids in use at once
ChunkBytes == {1, 2}             \* byte contents of one chunk (its checksum)
Times == 1..MaxTime

VARIABLES
    media_items,     \* id -> [size, folder_id, content_hash, deleted_at]
    media_folders,   \* id -> [parent_id, item_count, total_size]
    upload,          \* request -> state of the server's upload/dedup path
    sizeUpdates,     \* number of size UPDATEs so far (bounds the model)
    lastOp,          \* history: the last logged statement, <<op, a, b>>
    media_chunked_uploads,  \* id -> [total_chunks, received_chunks, expires_at, completed_at]
    media_upload_chunks,    \* set of [upload_id, chunk_index, received, checksum]
    temp_artifacts,  \* the upload ids whose temp_path holds an artifact
    completing,      \* the upload ids with a complete call in progress
    now,             \* the clock, NOW()
    queue,           \* RustMedia.Upload.queue: the ids of the queue items, in order
    queueItems,      \* queue item id -> [status, size, uploadId, xhr]
    uploading,       \* RustMedia.Upload.uploading
    proc,            \* the running processQueue call: [pc, item, uploadId, i, total]
    accepted,        \* server: the <<upload id, chunk index>> it has accepted
    srvOpen,         \* server: the uploads initialised and not completed or cancelled
    completeSent,    \* the upload ids a complete request was sent for
    cancelSent,      \* the upload ids a cancel request was sent for
    cancelledOpen,   \* history: the upload ids open on the server when their item was cancelled
    folder_slug,     \* media_folders.slug: folder id -> slug
    dialogs,         \* call of Folders.deleteFolder -> [pc, folder]
    folderDeleteSent,  \* the delete requests sent for folders: [folder, force]
    notEmptyFailed,  \* history: the folders whose unforced delete failed as not empty
    forceConfirmed,  \* history: the folders whose second prompt the user confirmed
    media_thumbnails,  \* set of [media_id, size_name]
    media_tags,      \* id -> [usage_count]
    media_item_tags, \* set of [media_id, tag_id]
    slicing,         \* a call of uploadChunked: [pc, size, chunkSize, totalChunks, i, sent]
    bulk,            \* a call of Actions.delete: [pc, ids, k, sent]
    deletedIds       \* server: the ids whose delete request succeeded

catalogVars == <<media_items, media_folders, upload, sizeUpdates>>

chunkVars == <<media_chunked_uploads, media_upload_chunks, temp_artifacts, completing, now>>

clientVars == <<queue, queueItems, uploading, proc, accepted, srvOpen,
                completeSent, cancelSent, cancelledOpen>>

folderVars == <<folder_slug>>

dialogVars == <<dialogs, folderDeleteSent, notEmptyFailed, forceConfirmed>>

tagVars == <<media_thumbnails, media_tags, media_item_tags>>

bulkVars == <<bulk, deletedIds>>

vars == <<media_items, media_folders, upload, sizeUpdates, lastOp,
          media_chunked_uploads, media_upload_chunks, temp_artifacts, completing, now,
          queue, queueItems, uploading, proc, accepted, srvOpen,
          completeSent, cancelSent, cancelledOpen, folder_slug,
          dialogs, folderDeleteSent, notEmptyFailed, forceConfirmed,
          media_thumbnails, media_tags, media_item_tags, slicing,
          bulk, deletedIds>>

(***************************************************************************)
(* Helpers.                                                                *)
(***************************************************************************)
RECURSIVE SumOver(_, _)
SumOver(S, f) ==
    IF S = {} THEN 0
    ELSE LET x == CHOOSE y \in S : TRUE
         IN f[x] + SumOver(S \ {x}, f)

IdleUpload == [pc |-> "idle", hash |-> NULL, size |-> 0,
               outcome |-> "", item |-> NULL, conflict |-> FALSE]

(***************************************************************************)
(* media_folders: a new row has item_count 0 and total_size 0.             *)
(***************************************************************************)
NewFolder(parent) == [parent_id |-> parent, item_count |-> 0, total_size |-> 0]

(* The cascade stopping at the deleted row itself. *)
DescendantsSelfOnly(S, folders) == S

(* The cascade stopping at the children of the deleted row. *)
DescendantsOneLevel(S, folders) ==
    S \cup {g \in DOMAIN folders : folders[g].parent_id \in S}

(* The folders removed with f by parent_id ... ON DELETE CASCADE. *)
RECURSIVE Descendants(_, _)
Descendants(S, folders) ==
    LET kids == {g \in DOMAIN folders : folders[g].parent_id \in S} \ S
    IN IF kids = {} THEN S ELSE Descendants(S \cup kids, folders)

(***************************************************************************)
(* update_folder_stats(): the AFTER INSERT OR UPDATE OR DELETE row trigger *)
(* on media_items.  An UPDATE ... WHERE id = x touches no row when x is    *)
(* NULL or names no folder.                                                *)
(***************************************************************************)
AddStats(folders, f, dc, ds) ==
    IF f \in DOMAIN folders
    THEN [folders EXCEPT ![f].item_count = @ + dc, ![f].total_size = @ + ds]
    ELSE folders

(* update_folder_stats with the old folder's UPDATE of a move left out. *)
update_folder_stats_attach_only(TG_OP, OLDROW, NEWROW, folders) ==
    IF TG_OP = "INSERT" THEN
        AddStats(folders, NEWROW.folder_id, 1, NEWROW.size)
    ELSE IF TG_OP = "DELETE" THEN
        AddStats(folders, OLDROW.folder_id, -1, 0 - OLDROW.size)
    ELSE IF TG_OP = "UPDATE" /\ OLDROW.folder_id # NEWROW.folder_id THEN
        IF NEWROW.folder_id # NULL
        THEN AddStats(folders, NEWROW.folder_id, 1, NEWROW.size)
        ELSE folders
    ELSE folders

(* update_folder_stats adding to the parent of the folder as well. *)
AddStatsWithParent(folders, f, dc, ds) ==
    IF f \in DOMAIN folders
    THEN AddStats(AddStats(folders, f, dc, ds), folders[f].parent_id, dc, ds)
    ELSE folders

update_folder_stats_cascading(TG_OP, OLDROW, NEWROW, folders) ==
    IF TG_OP = "INSERT" THEN
        AddStatsWithParent(folders, NEWROW.folder_id, 1, NEWROW.size)
    ELSE IF TG_OP = "DELETE" THEN
        AddStatsWithParent(folders, OLDROW.folder_id, -1, 0 - OLDROW.size)
    ELSE IF TG_OP = "UPDATE" /\ OLDROW.folder_id # NEWROW.folder_id THEN
        AddStatsWithParent(
            AddStatsWithParent(folders, OLDROW.folder_id, -1, 0 - OLDROW.size),
            NEWROW.folder_id, 1, NEWROW.size)
    ELSE folders

(* update_folder_stats counting the non-deleted rows only: an UPDATE of    *)
(* deleted_at takes the row out of, or back into, its folder's stats.      *)
update_folder_stats_live_only(TG_OP, OLDROW, NEWROW, folders) ==
    IF TG_OP = "INSERT" THEN
        AddStats(folders, NEWROW.folder_id, 1, NEWROW.size)
    ELSE IF TG_OP = "DELETE" THEN
        AddStats(folders, OLDROW.folder_id, -1, 0 - OLDROW.size)
    ELSE IF TG_OP = "UPDATE" /\ OLDROW.folder_id # NEWROW.folder_id THEN
        LET afterOld == IF OLDROW.folder_id # NULL
                        THEN AddStats(folders, OLDROW.folder_id, -1, 0 - OLDROW.size)
                        ELSE folders
        IN IF NEWROW.folder_id # NULL
           THEN AddStats(afterOld, NEWROW.folder_id, 1, NEWROW.size)
           ELSE afterOld
    ELSE IF TG_OP = "UPDATE" /\ OLDROW.deleted_at # NEWROW.deleted_at THEN
        IF NEWROW.deleted_at
        THEN AddStats(folders, OLDROW.folder_id, -1, 0 - OLDROW.size)
        ELSE AddStats(folders, NEWROW.folder_id, 1, NEWROW.size)
    ELSE folders

update_folder_stats(TG_OP, OLDROW, NEWROW, folders) ==
    IF TG_OP = "INSERT" THEN
        AddStats(folders, NEWROW.folder_id, 1, NEWROW.size)
    ELSE IF TG_OP = "DELETE" THEN
        AddStats(folders, OLDROW.folder_id, -1, 0 - OLDROW.size)
    ELSE IF TG_OP = "UPDATE" /\ OLDROW.folder_id # NEWROW.folder_id THEN
        LET afterOld == IF OLDROW.folder_id # NULL
                        THEN AddStats(folders, OLDROW.folder_id, -1, 0 - OLDROW.size)
                        ELSE folders
        IN IF NEWROW.folder_id # NULL
           THEN AddStats(afterOld, NEWROW.folder_id, 1, NEWROW.size)
           ELSE afterOld
    ELSE folders

(***************************************************************************)
(* media_items: UNIQUE(content_hash) covers every row, soft-deleted or     *)
(* not.                                                                    *)
(***************************************************************************)
(* The constraint as a partial index over the non-deleted rows. *)
UniqueContentHashLiveOnly(items, h) ==
    \A i \in DOMAIN items :
        items[i].deleted_at = FALSE => items[i].content_hash # h

(* The table without the constraint. *)
UniqueContentHashMissing(items, h) == TRUE

UniqueContentHash(items, h) ==
    \A i \in DOMAIN items : items[i].content_hash # h

(* A byte content has one hash and one size. *)
SizeOfContent(h) == ((h - 1) % MaxSize) + 1

(* The non-deleted rows with content hash h: the dedup lookup. *)
LiveWithHash(items, h) ==
    {i \in DOMAIN items : items[i].content_hash = h /\ items[i].deleted_at = FALSE}

(* UPDATE media_items SET ... WHERE id = i, with its trigger. *)
UpdateRow(i, new) ==
    /\ media_items' = [media_items EXCEPT ![i] = new]
    /\ media_folders' = update_folder_stats("UPDATE", media_items[i], new, media_folders)

(***************************************************************************)
(* update_tag_usage(): the AFTER INSERT OR DELETE row trigger on           *)
(* media_item_tags, and the rows that go with a media_items row by         *)
(* media_id ... ON DELETE CASCADE.                                         *)
(***************************************************************************)
AdjustUsage(tags, t, d) ==
    IF t \in DOMAIN tags
    THEN [tags EXCEPT ![t].usage_count = @ + d]
    ELSE tags

(* update_tag_usage without its DELETE branch. *)
update_tag_usage_insert_only(TG_OP, OLDROW, NEWROW, tags) ==
    IF TG_OP = "INSERT" THEN AdjustUsage(tags, NEWROW.tag_id, 1)
    ELSE tags

update_tag_usage(TG_OP, OLDROW, NEWROW, tags) ==
    IF TG_OP = "INSERT" THEN AdjustUsage(tags, NEWROW.tag_id, 1)
    ELSE IF TG_OP = "DELETE" THEN AdjustUsage(tags, OLDROW.tag_id, -1)
    ELSE tags

(* A cascade that deletes the rows without firing their trigger. *)
UsageAfterDeletesNoTrigger(S, tags) == tags

(* The DELETE triggers of the media_item_tags rows S, row after row. *)
RECURSIVE UsageAfterDeletes(_, _)
UsageAfterDeletes(S, tags) ==
    IF S = {} THEN tags
    ELSE LET r == CHOOSE x \in S : TRUE
         IN UsageAfterDeletes(S \ {r}, update_tag_usage("DELETE", r, r, tags))

(* DELETE of the media_items rows gone: their media_thumbnails and         *)
(* media_item_tags rows are deleted with them.                             *)
CascadeItemDelete(gone) ==
    /\ media_thumbnails' = {t \in media_thumbnails : t.media_id \notin gone}
    /\ media_item_tags' = {r \in media_item_tags : r.media_id \notin gone}
    /\ media_tags' = UsageAfterDeletes({r \in media_item_tags : r.media_id \in gone},
                                       media_tags)

(***************************************************************************)
(* Folder statements.                                                      *)
(***************************************************************************)
CreateFolder(f, parent) ==
    /\ f \notin DOMAIN media_folders
    /\ parent = NULL \/ parent \in DOMAIN media_folders
    /\ media_folders' = [g \in DOMAIN media_folders \cup {f} |->
                            IF g = f THEN NewFolder(parent) ELSE media_folders[g]]
    /\ UNCHANGED <<media_items, upload, sizeUpdates>>

(* DELETE FROM media_folders WHERE id = f: child folders go by ON DELETE   *)
(* CASCADE, media_items.folder_id of the items in them is SET NULL.  The   *)
(* SET NULL update fires update_folder_stats, whose UPDATE of the old      *)
(* folder finds no row.                                                    *)
DeleteFolder(f) ==
    /\ f \in DOMAIN media_folders
    /\ LET gone == Descendants({f}, media_folders)
           kept == DOMAIN media_folders \ gone
       IN /\ media_folders' = [g \in kept |-> media_folders[g]]
          /\ media_items' = [i \in DOMAIN media_items |->
                                IF media_items[i].folder_id \in gone
                                THEN [media_items[i] EXCEPT !.folder_id = NULL]
                                ELSE media_items[i]]
    /\ UNCHANGED <<upload, sizeUpdates>>

(***************************************************************************)
(* Item statements.                                                        *)
(***************************************************************************)
(* POST /{id}/move {folder_id}: only folder_id changes. *)
MoveMedia(i, f) ==
    /\ i \in DOMAIN media_items
    /\ f = NULL \/ f \in DOMAIN media_folders
    /\ UpdateRow(i, [media_items[i] EXCEPT !.folder_id = f])
    /\ UNCHANGED <<upload, sizeUpdates>>

(* DELETE /{id}?permanent=false: deleted_at is set. *)
SoftDelete(i) ==
    /\ i \in DOMAIN media_items
    /\ media_items[i].deleted_at = FALSE
    /\ UpdateRow(i, [media_items[i] EXCEPT !.deleted_at = TRUE])
    /\ UNCHANGED <<upload, sizeUpdates>>

Restore(i) ==
    /\ i \in DOMAIN media_items
    /\ media_items[i].deleted_at = TRUE
    /\ UpdateRow(i, [media_items[i] EXCEPT !.deleted_at = FALSE])
    /\ UNCHANGED <<upload, sizeUpdates>>

(* UPDATE media_items SET size = s: the folder does not change. *)
UpdateSize(i, s) ==
    /\ i \in DOMAIN media_items
    /\ s # media_items[i].size
    /\ sizeUpdates < MaxSizeUpdates
    /\ UpdateRow(i, [media_items[i] EXCEPT !.size = s])
    /\ sizeUpdates' = sizeUpdates + 1
    /\ UNCHANGED upload

(* DELETE /{id}?permanent=true: the row is deleted. *)
HardDelete(i) ==
    /\ i \in DOMAIN media_items
    /\ media_items' = [j \in DOMAIN media_items \ {i} |-> media_items[j]]
    /\ media_folders' = update_folder_stats("DELETE", media_items[i], media_items[i],
                                            media_folders)
    /\ CascadeItemDelete({i})
    /\ UNCHANGED <<upload, sizeUpdates>>

(* INSERT INTO media_items, with its trigger; row i is new. *)
InsertRow(i, row) ==
    /\ media_items' = [j \in DOMAIN media_items \cup {i} |->
                          IF j = i THEN row ELSE media_items[j]]
    /\ media_folders' = update_folder_stats("INSERT", row, row, media_folders)

(* An item of content h, held by no row yet, is ingested into folder f. *)
InsertItem(i, s, f, h) ==
    /\ i \notin DOMAIN media_items
    /\ f = NULL \/ f \in DOMAIN media_folders
    /\ UniqueContentHash(media_items, h)
    /\ InsertRow(i, [size |-> s, folder_id |-> f,
                     content_hash |-> h, deleted_at |-> FALSE])
    /\ UNCHANGED <<upload, sizeUpdates>>

(***************************************************************************)
(* The upload path (simple upload, or complete of a chunked upload): the   *)
(* dedup lookup among non-deleted items, then the INSERT.                  *)
(***************************************************************************)
UploadLookup(r, h) ==
    /\ upload[r].pc = "idle"
    /\ LET live == LiveWithHash(media_items, h)
           s == SizeOfContent(h)
       IN upload' = [upload EXCEPT ![r] =
            IF live # {}
            THEN [pc |-> "done", hash |-> h, size |-> s, outcome |-> "duplicate",
                  item |-> CHOOSE i \in live : TRUE, conflict |-> FALSE]
            ELSE [pc |-> "insert", hash |-> h, size |-> s, outcome |-> "",
                  item |-> NULL, conflict |-> FALSE]]
    /\ UNCHANGED <<media_items, media_folders, sizeUpdates>>

(* INSERT INTO media_items.  A unique violation on content_hash resolves   *)
(* to the non-deleted item holding the hash, or to a Conflict error when   *)
(* no non-deleted item holds it.                                           *)
UploadInsert(r, i, f) ==
    /\ upload[r].pc = "insert"
    /\ i \notin DOMAIN media_items
    /\ f = NULL \/ f \in DOMAIN media_folders
    /\ LET h == upload[r].hash
           row == [size |-> upload[r].size, folder_id |-> f,
                   content_hash |-> h, deleted_at |-> FALSE]
           live == LiveWithHash(media_items, h)
       IN IF UniqueContentHash(media_items, h)
          THEN /\ InsertRow(i, row)
               /\ upload' = [upload EXCEPT ![r].pc = "done", ![r].outcome = "created",
                                           ![r].item = i]
          ELSE /\ upload' = [upload EXCEPT
                    ![r].pc = "done",
                    ![r].conflict = TRUE,
                    ![r].outcome = IF live # {} THEN "duplicate" ELSE "error",
                    ![r].item = IF live # {} THEN CHOOSE j \in live : TRUE ELSE NULL]
               /\ UNCHANGED <<media_items, media_folders>>
    /\ UNCHANGED sizeUpdates

(* The response is returned; the request slot is free again. *)
UploadRespond(r) ==
    /\ upload[r].pc = "done"
    /\ upload' = [upload EXCEPT ![r] = IdleUpload]
    /\ UNCHANGED <<media_items, media_folders, sizeUpdates>>

(***************************************************************************)
(* The catalog specification: folders, items and the stats trigger.        *)
(***************************************************************************)
Init ==
    /\ media_items = << >>
    /\ media_folders = << >>
    /\ upload = [r \in Requests |-> IdleUpload]
    /\ sizeUpdates = 0
    /\ lastOp = <<"none", NULL, NULL>>
    /\ media_chunked_uploads = << >>
    /\ media_upload_chunks = {}
    /\ temp_artifacts = {}
    /\ completing = {}
    /\ now = 1
    /\ queue = << >>
    /\ queueItems = << >>
    /\ uploading = FALSE
    /\ proc = [pc |-> "idle", item |-> NULL, uploadId |-> NULL, i |-> 0, total |-> 0]
    /\ accepted = {}
    /\ srvOpen = {}
    /\ completeSent = {}
    /\ cancelSent = {}
    /\ cancelledOpen = {}
    /\ folder_slug = << >>
    /\ dialogs = [d \in {"d1", "d2"} |-> [pc |-> "idle", folder |-> NULL]]
    /\ folderDeleteSent = {}
    /\ notEmptyFailed = {}
    /\ forceConfirmed = {}
    /\ media_thumbnails = {}
    /\ media_tags = << >>
    /\ media_item_tags = {}
    /\ slicing = [pc |-> "idle", size |-> 0, chunkSize |-> 0, totalChunks |-> 0,
                  i |-> 0, sent |-> << >>]
    /\ bulk = [pc |-> "idle", ids |-> << >>, k |-> 0, sent |-> << >>]
    /\ deletedIds = {}

(* History for the witnesses: whether the last statement moved an item    *)
(* between two different folders, and which.                               *)
NoOp == <<"none", NULL, NULL>>

Logged(op, a, b) ==
    lastOp' = IF op = "move" /\ a # NULL /\ b # NULL /\ a # b THEN <<op, a, b>>
              ELSE IF op = "restore" THEN <<op, a, b>>
              ELSE NoOp

(* In the catalog specification the contents are numbered as the rows:    *)
(* row i is ingested from content i.                                       *)
CatalogNext ==
    \/ \E f \in FolderIds, p \in FolderIds \cup {NULL} :
            CreateFolder(f, p) /\ Logged("create_folder", f, p) /\ UNCHANGED tagVars
    \/ \E f \in FolderIds :
            DeleteFolder(f) /\ Logged("delete_folder", f, NULL) /\ UNCHANGED tagVars
    \/ \E i \in ItemIds, s \in Sizes, f \in FolderIds \cup {NULL} :
            InsertItem(i, s, f, i) /\ Logged("insert", i, f) /\ UNCHANGED tagVars
    \/ \E i \in ItemIds, f \in FolderIds \cup {NULL} :
            MoveMedia(i, f) /\ Logged("move", media_items[i].folder_id, f) /\ UNCHANGED tagVars
    \/ \E i \in ItemIds :
            SoftDelete(i) /\ Logged("soft_delete", i, NULL) /\ UNCHANGED tagVars
    \/ \E i \in ItemIds :
            Restore(i) /\ Logged("restore", i, NULL) /\ UNCHANGED tagVars
    \/ \E i \in ItemIds, s \in Sizes :
            UpdateSize(i, s) /\ Logged("update_size", i, s) /\ UNCHANGED tagVars
    \/ \E i \in ItemIds :
            HardDelete(i) /\ Logged("hard_delete", i, NULL)

Next == CatalogNext /\ UNCHANGED <<chunkVars, clientVars, folderVars, dialogVars, slicing, bulkVars>>

Spec == Init /\ [][Next]_vars

(***************************************************************************)
(* The dedup specification: concurrent uploads of equal and different      *)
(* contents into the root, with soft delete, restore and hard delete of    *)
(* the items.                                                              *)
(***************************************************************************)
DedupNext ==
    \/ \E r \in Requests, h \in Hashes :
            UploadLookup(r, h) /\ UNCHANGED <<lastOp, tagVars>>
    \/ \E r \in Requests, i \in ItemIds :
            UploadInsert(r, i, NULL) /\ UNCHANGED <<lastOp, tagVars>>
    \/ \E r \in Requests :
            UploadRespond(r) /\ UNCHANGED <<lastOp, tagVars>>
    \/ \E i \in ItemIds :
            SoftDelete(i) /\ UNCHANGED <<lastOp, tagVars>>
    \/ \E i \in ItemIds :
            Restore(i) /\ UNCHANGED <<lastOp, tagVars>>
    \/ \E i \in ItemIds :
            HardDelete(i) /\ UNCHANGED lastOp

NextDedup == DedupNext /\ UNCHANGED <<chunkVars, clientVars, folderVars, dialogVars, slicing, bulkVars>>

SpecDedup == Init /\ [][NextDedup]_vars

(***************************************************************************)
(* The folder hierarchy: create, move and delete of folders, with the      *)
(* slug column and UNIQUE(parent_id, slug).                                *)
(***************************************************************************)
HierarchyIds == {1, 2, 3}        \* media_folders ids in use at once in the hierarchy
Slugs == {"a", "b"}

(* The slugs of the folders whose parent is parent (NULL: the roots). *)
SiblingSlugs(folders, slugs, parent) ==
    {slugs[g] : g \in {x \in DOMAIN folders : folders[x].parent_id = parent}}

(* UNIQUE(parent_id, slug): two rows conflict when both columns are equal; *)
(* a NULL parent_id is equal to nothing, so root rows never conflict.      *)
UniqueParentSlug(folders, slugs, f, parent, slug) ==
    \/ parent = NULL
    \/ \A g \in DOMAIN folders \ {f} :
            ~(folders[g].parent_id = parent /\ slugs[g] = slug)

(* create(name, parent, description): the slug is validated against the    *)
(* siblings', then the row is inserted.                                    *)
FolderCreate(f, parent, slug) ==
    /\ slug \notin SiblingSlugs(media_folders, folder_slug, parent)
    /\ UniqueParentSlug(media_folders, folder_slug, f, parent, slug)
    /\ CreateFolder(f, parent)
    /\ folder_slug' = [g \in DOMAIN media_folders \cup {f} |->
                          IF g = f THEN slug ELSE folder_slug[g]]
    /\ lastOp' = NoOp

(* Move(folder, new_parent): rejected when new_parent is the folder or one *)
(* of its descendants; else parent_id is updated, under the constraint.    *)
FolderMove(f, newParent) ==
    /\ f \in DOMAIN media_folders
    /\ newParent = NULL \/ newParent \in DOMAIN media_folders
    /\ newParent # media_folders[f].parent_id
    /\ IF newParent \in Descendants({f}, media_folders)
       THEN /\ lastOp' = <<"move_folder_rejected", f, newParent>>
            /\ UNCHANGED media_folders
       ELSE /\ UniqueParentSlug(media_folders, folder_slug, f, newParent, folder_slug[f])
            /\ media_folders' = [media_folders EXCEPT ![f].parent_id = newParent]
            /\ lastOp' = NoOp
    /\ UNCHANGED <<media_items, upload, sizeUpdates, folder_slug>>

(* The DELETE triggers of the rows S, one row after the other. *)
RECURSIVE StatsAfterDeletes(_, _, _)
StatsAfterDeletes(S, rows, folders) ==
    IF S = {} THEN folders
    ELSE LET i == CHOOSE x \in S : TRUE
         IN StatsAfterDeletes(S \ {i}, rows,
                update_folder_stats("DELETE", rows[i], rows[i], folders))

(* Delete(folder, force): with no item in the folder and its descendants   *)
(* the folder is deleted; with items and force = false the request fails   *)
(* (FolderNotEmpty); with force = true the items are deleted, hard or soft *)
(* as the caller's delete mode says, and then the folder.                  *)
FolderDelete(f, force, permanent) ==
    /\ f \in DOMAIN media_folders
    /\ LET gone == Descendants({f}, media_folders)
           kept == DOMAIN media_folders \ gone
           count == SumOver(gone, [g \in gone |-> media_folders[g].item_count])
           inside == {i \in DOMAIN media_items : media_items[i].folder_id \in gone}
           stats == IF permanent
                    THEN StatsAfterDeletes(inside, media_items, media_folders)
                    ELSE media_folders
       IN IF count # 0 /\ ~force
          THEN /\ lastOp' = <<"delete_folder_rejected", f, NULL>>
               /\ UNCHANGED <<media_items, media_folders, folder_slug, tagVars>>
          ELSE /\ media_folders' = [g \in kept |-> stats[g]]
               /\ folder_slug' = [g \in kept |-> folder_slug[g]]
               /\ media_items' =
                      IF permanent
                      THEN [i \in DOMAIN media_items \ inside |-> media_items[i]]
                      ELSE [i \in DOMAIN media_items |->
                               IF i \in inside
                               THEN [media_items[i] EXCEPT !.deleted_at = TRUE,
                                                           !.folder_id = NULL]
                               ELSE media_items[i]]
               /\ IF permanent THEN CascadeItemDelete(inside) ELSE UNCHANGED tagVars
               /\ lastOp' = IF force /\ count # 0
                            THEN <<"force_delete", f,
                                   [folders |-> Cardinality(gone),
                                    items |-> Cardinality(inside),
                                    parent |-> media_folders[f].parent_id]>>
                            ELSE NoOp
    /\ UNCHANGED <<upload, sizeUpdates>>

FoldersNext ==
    \/ \E f \in HierarchyIds, p \in HierarchyIds \cup {NULL}, sl \in Slugs :
            FolderCreate(f, p, sl) /\ UNCHANGED tagVars
    \/ \E f \in HierarchyIds, p \in HierarchyIds \cup {NULL} :
            FolderMove(f, p) /\ UNCHANGED tagVars
    \/ \E f \in HierarchyIds, force \in BOOLEAN, permanent \in BOOLEAN :
            FolderDelete(f, force, permanent)
    \/ \E i \in ItemIds, f \in HierarchyIds \cup {NULL} :
            InsertItem(i, SizeOfContent(i), f, i) /\ lastOp' = NoOp
                /\ UNCHANGED <<folder_slug, tagVars>>

NextFolders == FoldersNext /\ UNCHANGED <<chunkVars, clientVars, dialogVars, slicing, bulkVars>>

SpecFolders == Init /\ [][NextFolders]_vars

(***************************************************************************)
(* Thumbnails and tags of the items: media_thumbnails, media_tags and      *)
(* media_item_tags, with hard delete of the items.                         *)
(***************************************************************************)
TagIds == {1, 2}                 \* media_tags ids in use at once
SizeNames == {"thumb"}           \* media_thumbnails.size_name

(* INSERT INTO media_thumbnails: UNIQUE(media_id, size_name). *)
AddThumbnail(i, name) ==
    /\ i \in DOMAIN media_items
    /\ [media_id |-> i, size_name |-> name] \notin media_thumbnails
    /\ media_thumbnails' = media_thumbnails \cup {[media_id |-> i, size_name |-> name]}
    /\ UNCHANGED <<media_tags, media_item_tags>>

(* INSERT INTO media_tags: usage_count defaults to 0. *)
CreateTag(t) ==
    /\ t \notin DOMAIN media_tags
    /\ media_tags' = [x \in DOMAIN media_tags \cup {t} |->
                         IF x = t THEN [usage_count |-> 0] ELSE media_tags[x]]
    /\ UNCHANGED <<media_thumbnails, media_item_tags>>

(* DELETE FROM media_tags: its media_item_tags rows go by tag_id ... ON    *)
(* DELETE CASCADE; their trigger finds no media_tags row to update.        *)
DeleteTag(t) ==
    /\ t \in DOMAIN media_tags
    /\ media_item_tags' = {r \in media_item_tags : r.tag_id # t}
    /\ media_tags' = UsageAfterDeletes({r \in media_item_tags : r.tag_id = t},
                                       [x \in DOMAIN media_tags \ {t} |-> media_tags[x]])
    /\ UNCHANGED media_thumbnails

(* INSERT INTO media_item_tags: PRIMARY KEY (media_id, tag_id). *)
TagItem(i, t) ==
    /\ i \in DOMAIN media_items
    /\ t \in DOMAIN media_tags
    /\ [media_id |-> i, tag_id |-> t] \notin media_item_tags
    /\ LET row == [media_id |-> i, tag_id |-> t]
       IN /\ media_item_tags' = media_item_tags \cup {row}
          /\ media_tags' = update_tag_usage("INSERT", row, row, media_tags)
    /\ UNCHANGED media_thumbnails

(* DELETE FROM media_item_tags WHERE media_id = i AND tag_id = t. *)
UntagItem(i, t) ==
    /\ [media_id |-> i, tag_id |-> t] \in media_item_tags
    /\ LET row == [media_id |-> i, tag_id |-> t]
       IN /\ media_item_tags' = media_item_tags \ {row}
          /\ media_tags' = update_tag_usage("DELETE", row, row, media_tags)
    /\ UNCHANGED media_thumbnails

TagsNext ==
    \/ \E f \in FolderIds :
            CreateFolder(f, NULL) /\ lastOp' = NoOp /\ UNCHANGED tagVars
    \/ \E i \in ItemIds, sz \in Sizes, f \in FolderIds \cup {NULL} :
            InsertItem(i, sz, f, i) /\ lastOp' = NoOp /\ UNCHANGED tagVars
    \/ \E i \in ItemIds, name \in SizeNames :
            AddThumbnail(i, name) /\ lastOp' = NoOp /\ UNCHANGED catalogVars
    \/ \E t \in TagIds :
            CreateTag(t) /\ lastOp' = NoOp /\ UNCHANGED catalogVars
    \/ \E t \in TagIds :
            DeleteTag(t) /\ lastOp' = NoOp /\ UNCHANGED catalogVars
    \/ \E i \in ItemIds, t \in TagIds :
            TagItem(i, t) /\ lastOp' = NoOp /\ UNCHANGED catalogVars
    \/ \E i \in ItemIds, t \in TagIds :
            UntagItem(i, t) /\ lastOp' = NoOp /\ UNCHANGED catalogVars
    \/ \E i \in ItemIds :
            /\ HardDelete(i)
            /\ lastOp' = <<"hard_delete", media_items[i].folder_id,
                           [tags |-> Cardinality({r \in media_item_tags : r.media_id = i}),
                            thumbnails |-> Cardinality({t \in media_thumbnails :
                                                          t.media_id = i})]>>

NextTags == TagsNext /\ UNCHANGED <<chunkVars, clientVars, folderVars, dialogVars, slicing, bulkVars>>

SpecTags == Init /\ [][NextTags]_vars

(***************************************************************************)
(* Chunked uploads: media_chunked_uploads, media_upload_chunks and         *)
(* cleanup_expired_uploads().                                              *)
(***************************************************************************)
TTL == 1    \* expires_at = started_at + TTL

(* media_upload_chunks: PRIMARY KEY (upload_id, chunk_index). *)
ChunkKeyMissing(rows, u, idx) == FALSE

ChunkKeyTaken(rows, u, idx) ==
    \E c \in rows : c.upload_id = u /\ c.chunk_index = idx

ReceivedRows(u) ==
    {c \in media_upload_chunks : c.upload_id = u /\ c.received = TRUE}

(* The digest of the assembled artifact: a function of the chunks' bytes. *)
ContentHash(rows) ==
    (SumOver(rows, [c \in rows |-> c.checksum]) % MaxHashes) + 1

(* DELETE ... WHERE expires_at < NOW() AND completed_at IS NULL *)
ExpirableInclusive(row, t) == row.expires_at <= t /\ row.completed_at = NULL


Expirable(row, t) == row.expires_at < t /\ row.completed_at = NULL

(* media_upload_chunks.upload_id ... ON DELETE CASCADE *)
ChunksKept(rows, removed) == {c \in rows : c.upload_id \notin removed}

(* init: a row with received_chunks 0, a temp path and an expiry deadline. *)
InitChunkedUpload(u, n) ==
    /\ u \notin DOMAIN media_chunked_uploads
    /\ media_chunked_uploads' =
            [v \in DOMAIN media_chunked_uploads \cup {u} |->
                IF v = u
                THEN [total_chunks |-> n, received_chunks |-> 0,
                      expires_at |-> now + TTL, completed_at |-> NULL]
                ELSE media_chunked_uploads[v]]
    /\ temp_artifacts' = temp_artifacts \cup {u}
    /\ lastOp' = NoOp
    /\ UNCHANGED <<catalogVars, media_upload_chunks, completing, now>>

(* upload_chunk: the chunk's row is written by its key; a chunk index      *)
(* received again overwrites the row and does not count again.             *)
ReceiveChunk(u, idx, bytes) ==
    /\ u \in DOMAIN media_chunked_uploads
    /\ u \notin completing
    /\ media_chunked_uploads[u].completed_at = NULL
    /\ media_chunked_uploads[u].expires_at >= now
    /\ idx \in 0..(media_chunked_uploads[u].total_chunks - 1)
    /\ LET row == [upload_id |-> u, chunk_index |-> idx,
                   received |-> TRUE, checksum |-> bytes]
       IN IF ChunkKeyTaken(media_upload_chunks, u, idx)
          THEN /\ media_upload_chunks' =
                     {c \in media_upload_chunks :
                         ~(c.upload_id = u /\ c.chunk_index = idx)} \cup {row}
               /\ UNCHANGED media_chunked_uploads
               /\ lastOp' = <<"receive_again", u, NULL>>
          ELSE /\ media_upload_chunks' = media_upload_chunks \cup {row}
               /\ media_chunked_uploads' =
                     [media_chunked_uploads EXCEPT ![u].received_chunks = @ + 1]
               /\ lastOp' = NoOp
    /\ UNCHANGED <<catalogVars, temp_artifacts, completing, now>>

(* complete is accepted: every chunk is received and the deadline has not  *)
(* passed.  The upload is being assembled; media_chunked_uploads has no    *)
(* column for that, completed_at stays NULL until the upload is marked     *)
(* completed.                                                              *)
CompleteBegin(u) ==
    /\ u \in DOMAIN media_chunked_uploads
    /\ u \notin completing
    /\ media_chunked_uploads[u].completed_at = NULL
    /\ media_chunked_uploads[u].expires_at >= now
    /\ media_chunked_uploads[u].received_chunks = media_chunked_uploads[u].total_chunks
    /\ completing' = completing \cup {u}
    /\ lastOp' = NoOp
    /\ UNCHANGED <<catalogVars, media_chunked_uploads, media_upload_chunks,
                   temp_artifacts, now>>

(* complete ends: the assembled content goes down the dedup path, the temp *)
(* artifact is discarded (a duplicate) or committed (a new item), and the  *)
(* upload is marked completed.  With its row gone the call fails.          *)
CompleteFinish(u) ==
    /\ u \in completing
    /\ completing' = completing \ {u}
    /\ lastOp' = NoOp
    /\ IF u \in DOMAIN media_chunked_uploads
       THEN /\ \E j \in ItemIds : j \notin DOMAIN media_items
            /\ LET h == ContentHash(ReceivedRows(u))
                   i == CHOOSE j \in ItemIds : j \notin DOMAIN media_items
               IN IF LiveWithHash(media_items, h) = {} /\ UniqueContentHash(media_items, h)
                  THEN InsertRow(i, [size |-> SizeOfContent(h), folder_id |-> NULL,
                                     content_hash |-> h, deleted_at |-> FALSE])
                  ELSE UNCHANGED <<media_items, media_folders>>
            /\ media_chunked_uploads' =
                    [media_chunked_uploads EXCEPT ![u].completed_at = now]
            /\ temp_artifacts' = temp_artifacts \ {u}
       ELSE UNCHANGED <<media_items, media_folders, media_chunked_uploads, temp_artifacts>>
    /\ UNCHANGED <<upload, sizeUpdates, media_upload_chunks, now>>

(* cleanup_expired_uploads(): the rows it deletes, and its return value. *)
ExpiredUploads(uploads, t) == {u \in DOMAIN uploads : Expirable(uploads[u], t)}

(* The sweep: cleanup_expired_uploads() and the removal of the temp        *)
(* artifacts of the uploads it deletes.                                    *)
GcSweep ==
    LET removed == ExpiredUploads(media_chunked_uploads, now)
    IN /\ media_chunked_uploads' =
            [u \in DOMAIN media_chunked_uploads \ removed |-> media_chunked_uploads[u]]
       /\ media_upload_chunks' = ChunksKept(media_upload_chunks, removed)
       /\ temp_artifacts' = temp_artifacts \ removed
       /\ lastOp' = <<"sweep", Cardinality(removed), NULL>>
       /\ UNCHANGED <<catalogVars, completing, now>>

Tick ==
    /\ now < MaxTime
    /\ now' = now + 1
    /\ lastOp' = NoOp
    /\ UNCHANGED <<catalogVars, media_chunked_uploads, media_upload_chunks,
                   temp_artifacts, completing>>

ChunkedNext ==
    \/ \E u \in UploadIds, n \in 1..MaxChunks : InitChunkedUpload(u, n)
    \/ \E u \in UploadIds, idx \in 0..(MaxChunks - 1), b \in ChunkBytes :
            ReceiveChunk(u, idx, b)
    \/ \E u \in UploadIds : CompleteBegin(u)
    \/ \E u \in UploadIds : CompleteFinish(u)
    \/ GcSweep
    \/ Tick

NextChunked == ChunkedNext /\ UNCHANGED <<clientVars, folderVars, dialogVars, tagVars, slicing, bulkVars>>

SpecChunked == Init /\ [][NextChunked]_vars

(***************************************************************************)
(* The browser upload queue, RustMedia.Upload, and the requests it sends   *)
(* through RustMedia.API.  One action is one run of the event loop: a      *)
(* handler or the continuation of an await, up to the next await.          *)
(***************************************************************************)
ChunkSize == 2      \* config.chunkSize
QueueIds == {1, 2}  \* queue item ids (generateId), taken in order
AllowedExtensions == {"jpg"}     \* config.allowedExtensions
(* File names, as the segments that name.split('.') gives. *)
FileNames == {<<"photo", "jpg">>, <<"photo", "JPG">>, <<"setup", "exe">>,
              <<"photo", "jpg", "exe">>}
Files == [size : 1..(MaxFileSize + 1), name : FileNames]

(* String.prototype.toLowerCase, on the segments used here. *)
toLowerCase(s) ==
    CASE s = "JPG" -> "jpg"
      [] s = "EXE" -> "exe"
      [] OTHER -> s

IdleProc == [pc |-> "idle", item |-> NULL, uploadId |-> NULL, i |-> 0, total |-> 0]

(* validateFile without the check of the extension. *)
validateFileSizeOnly(file) ==
    IF file.size > MaxFileSize THEN FALSE
    ELSE TRUE

(* The size first; then file.name.split('.').pop().toLowerCase() against   *)
(* the allowed list.                                                       *)
validateFile(file) ==
    IF file.size > MaxFileSize THEN FALSE
    ELSE LET ext == toLowerCase(file.name[Len(file.name)])
         IN IF ext \notin AllowedExtensions THEN FALSE
            ELSE TRUE

(* The division rounded down. *)
FloorDiv(a, b) == a \div b

(* Math.ceil(a / b), for a >= 0 and b > 0. *)
CeilDiv(a, b) == (a + b - 1) \div b

(* Math.ceil(item.file.size / chunkSize) *)
TotalChunks(size) == CeilDiv(size, ChunkSize)

(* addFiles' loop: a queue item, status pending, for every valid file. *)
RECURSIVE Enqueue(_, _, _)
Enqueue(st, files, k) ==
    IF k > Len(files) THEN st
    ELSE IF ~validateFile(files[k]) THEN Enqueue(st, files, k + 1)
    ELSE LET id == Cardinality(DOMAIN st.items) + 1
             item == [status |-> "pending", size |-> files[k].size,
                      name |-> files[k].name, uploadId |-> NULL, xhr |-> NULL]
         IN Enqueue([st EXCEPT !.queue = Append(@, id),
                               !.items = [j \in DOMAIN st.items \cup {id} |->
                                             IF j = id THEN item ELSE st.items[j]]],
                    files, k + 1)

(* processQueue up to its first await: nothing when an upload is running   *)
(* or no item is pending; else the first pending item starts uploading and *)
(* its first request (init, or the simple upload) is sent.                 *)
(* processQueue taking the first item that is pending or in error. *)
ProcessQueueRetrying(st) ==
    IF st.uploading THEN st
    ELSE LET pending == {k \in 1..Len(st.queue) :
                            st.items[st.queue[k]].status \in {"pending", "error"}}
         IN IF pending = {} THEN st
            ELSE LET k == CHOOSE m \in pending : \A n \in pending : m <= n
                     it == st.queue[k]
                 IN [st EXCEPT
                       !.uploading = TRUE,
                       !.items[it].status = "uploading",
                       !.proc = IF st.items[it].size > ChunkSize
                                THEN [pc |-> "init", item |-> it, uploadId |-> NULL, i |-> 0,
                                      total |-> TotalChunks(st.items[it].size)]
                                ELSE [pc |-> "simple", item |-> it, uploadId |-> NULL, i |-> 0,
                                      total |-> 0]]

(* processQueue without its first line, if (this.uploading) return. *)
ProcessQueueUnguarded(st) ==
    LET pending == {k \in 1..Len(st.queue) : st.items[st.queue[k]].status = "pending"}
    IN IF pending = {} THEN st
       ELSE LET k == CHOOSE m \in pending : \A n \in pending : m <= n
                it == st.queue[k]
            IN [st EXCEPT
                  !.uploading = TRUE,
                  !.items[it].status = "uploading",
                  !.proc = IF st.items[it].size > ChunkSize
                           THEN [pc |-> "init", item |-> it, uploadId |-> NULL, i |-> 0,
                                 total |-> TotalChunks(st.items[it].size)]
                           ELSE [pc |-> "simple", item |-> it, uploadId |-> NULL, i |-> 0,
                                 total |-> 0]]

ProcessQueue(st) ==
    IF st.uploading THEN st
    ELSE LET pending == {k \in 1..Len(st.queue) : st.items[st.queue[k]].status = "pending"}
         IN IF pending = {} THEN st
            ELSE LET k == CHOOSE m \in pending : \A n \in pending : m <= n
                     it == st.queue[k]
                 IN [st EXCEPT
                       !.uploading = TRUE,
                       !.items[it].status = "uploading",
                       !.proc = IF st.items[it].size > ChunkSize
                                THEN [pc |-> "init", item |-> it, uploadId |-> NULL, i |-> 0,
                                      total |-> TotalChunks(st.items[it].size)]
                                ELSE [pc |-> "simple", item |-> it, uploadId |-> NULL, i |-> 0,
                                      total |-> 0]]

ClientState == [queue |-> queue, items |-> queueItems, uploading |-> uploading, proc |-> proc]

SetClient(st) ==
    /\ queue' = st.queue
    /\ queueItems' = st.items
    /\ uploading' = st.uploading
    /\ proc' = st.proc

(* The end of processQueue: the item's final status, uploading = false,    *)
(* and processQueue again.                                                 *)
Settle(status) ==
    ProcessQueue([ClientState EXCEPT !.items[proc.item].status = status,
                                     !.uploading = FALSE,
                                     !.proc = IdleProc])

AddFiles(files) ==
    /\ Cardinality(DOMAIN queueItems) + Len(files) <= Cardinality(QueueIds)
    /\ SetClient(ProcessQueue(Enqueue(ClientState, files, 1)))
    /\ UNCHANGED <<accepted, srvOpen, completeSent, cancelSent, cancelledOpen>>

(* The answer to init (API.request: any failure throws). *)
InitResponse(outcome) ==
    /\ proc.pc = "init"
    /\ IF outcome = "ok"
       THEN /\ SetClient([ClientState EXCEPT !.proc.pc = "chunk",
                                              !.proc.uploadId = proc.item,
                                              !.proc.i = 0])
            /\ srvOpen' = srvOpen \cup {proc.item}
       ELSE /\ SetClient(Settle("error"))
            /\ UNCHANGED srvOpen
    /\ UNCHANGED <<accepted, completeSent, cancelSent, cancelledOpen>>

(* After chunk i: the next chunk, or status processing and complete. *)
AfterChunk ==
    IF proc.i + 1 < proc.total
    THEN /\ SetClient([ClientState EXCEPT !.proc.i = @ + 1])
         /\ UNCHANGED completeSent
    ELSE /\ SetClient([ClientState EXCEPT !.proc.pc = "complete",
                                           !.items[proc.item].status = "processing"])
         /\ completeSent' = completeSent \cup {proc.uploadId}

(* The answer to upload_chunk.  API.uploadChunk is fetch(...).then(r =>    *)
(* r.json()): it throws on a network error or a body that is not JSON, and *)
(* returns the body of any other answer, whatever its HTTP status.         *)
ChunkResponse(outcome) ==
    /\ proc.pc = "chunk"
    /\ IF outcome = "ok"
       THEN /\ accepted' = accepted \cup {<<proc.uploadId, proc.i>>}
            /\ AfterChunk
       ELSE IF outcome = "rejected"
       THEN /\ UNCHANGED accepted
            /\ AfterChunk
       ELSE /\ SetClient(Settle("error"))
            /\ UNCHANGED <<accepted, completeSent>>
    /\ UNCHANGED <<srvOpen, cancelSent, cancelledOpen>>

(* The answer to complete (API.request).  The server completes an upload   *)
(* only with every chunk accepted.                                         *)
CompleteResponse(outcome) ==
    /\ proc.pc = "complete"
    /\ outcome = "ok" =>
            /\ proc.uploadId \in srvOpen
            /\ \A idx \in 0..(proc.total - 1) : <<proc.uploadId, idx>> \in accepted
    /\ IF outcome = "ok"
       THEN /\ SetClient(Settle("complete"))
            /\ srvOpen' = srvOpen \ {proc.uploadId}
       ELSE /\ SetClient(Settle("error"))
            /\ UNCHANGED srvOpen
    /\ UNCHANGED <<accepted, completeSent, cancelSent, cancelledOpen>>

(* The XMLHttpRequest of uploadSimple: load with a 2xx status resolves,    *)
(* load with another status or the error event rejects.  When the load     *)
(* handler's JSON.parse throws, the promise is never settled.              *)
SimpleResponse(outcome) ==
    /\ proc.pc = "simple"
    /\ IF outcome = "ok" THEN SetClient(Settle("complete"))
       ELSE IF outcome = "unparsable" THEN SetClient([ClientState EXCEPT !.proc.pc = "stuck"])
       ELSE SetClient(Settle("error"))
    /\ UNCHANGED <<accepted, srvOpen, completeSent, cancelSent, cancelledOpen>>

(* cancel(itemId): item.xhr and item.uploadId are read; nothing assigns    *)
(* them (uploadChunked keeps the upload id in a local).  The item leaves   *)
(* the queue; a running processQueue call keeps its reference to it.       *)
Cancel(itemId) ==
    /\ \E k \in 1..Len(queue) : queue[k] = itemId
    /\ cancelSent' = IF queueItems[itemId].uploadId # NULL
                     THEN cancelSent \cup {queueItems[itemId].uploadId}
                     ELSE cancelSent
    /\ srvOpen' = IF queueItems[itemId].uploadId # NULL
                  THEN srvOpen \ {queueItems[itemId].uploadId}
                  ELSE srvOpen
    /\ cancelledOpen' = IF proc.item = itemId /\ proc.uploadId \in srvOpen
                        THEN cancelledOpen \cup {proc.uploadId}
                        ELSE cancelledOpen
    /\ queue' = SelectSeq(queue, LAMBDA x : x # itemId)
    /\ UNCHANGED <<queueItems, uploading, proc, accepted, completeSent>>

(* The answers of the server and the cancel button. *)
ClientAnswers ==
    \/ \E o \in {"ok", "error"} : InitResponse(o)
    \/ \E o \in {"ok", "rejected", "failed"} : ChunkResponse(o)
    \/ \E o \in {"ok", "error"} : CompleteResponse(o)
    \/ \E o \in {"ok", "rejected", "unparsable", "network_error"} : SimpleResponse(o)
    \/ \E it \in QueueIds : Cancel(it)

ClientNext ==
    \/ \E f \in Files : AddFiles(<<f>>)
    \/ \E f \in Files, g \in Files : AddFiles(<<f, g>>)
    \/ ClientAnswers

NextClient == ClientNext /\ UNCHANGED <<catalogVars, lastOp, chunkVars, folderVars, dialogVars, tagVars, slicing, bulkVars>>

SpecClient == Init /\ [][NextClient]_vars

(* The same client, with the batch of each call of addFiles on record. *)
Batches == {<<f>> : f \in Files} \cup {<<f, g>> : f \in Files, g \in Files}

IntakeNext ==
    \/ \E files \in Batches : AddFiles(files) /\ lastOp' = <<"addFiles", files, NULL>>
    \/ ClientAnswers /\ lastOp' = NoOp

NextIntake ==
    IntakeNext /\ UNCHANGED <<catalogVars, chunkVars, folderVars, dialogVars, tagVars,
                              slicing, bulkVars>>

SpecIntake == Init /\ [][NextIntake]_vars

(***************************************************************************)
(* RustMedia.Folders.deleteFolder: the two prompts and the two requests.   *)
(* confirm() is synchronous, so a prompt and the request after it are one  *)
(* step.  A message is the sequence of its words.                          *)
(***************************************************************************)
Dialogs == {"d1", "d2"}          \* calls of deleteFolder running at once

(* The answers to DELETE /folders/{id}: success, or a failure with the     *)
(* message API.request throws (the body's message, or the status text).    *)
DeleteResponses ==
    {[ok |-> TRUE, kind |-> "", message |-> << >>],
     [ok |-> FALSE, kind |-> "FolderNotEmpty", message |-> <<"folder", "is", "not", "empty">>],
     [ok |-> FALSE, kind |-> "NotFound", message |-> <<"folder", "not", "found">>],
     [ok |-> FALSE, kind |-> "IOFailure", message |-> <<"request", "failed">>]}

(* The test taken as: some word of the needle occurs in the message. *)
MessageIncludesAnyWord(message, needle) ==
    \E k \in 1..Len(message), j \in 1..Len(needle) : message[k] = needle[j]

(* String.prototype.includes: the needle occurs as a run of the message. *)
MessageIncludes(message, needle) ==
    \E k \in 0..(Len(message) - Len(needle)) :
        \A j \in 1..Len(needle) : message[k + j] = needle[j]

(* deleteFolder(folderId) up to its first await: declined, or the unforced *)
(* request is sent.                                                        *)
DeleteFolderStart(d, f, confirmed) ==
    /\ dialogs[d].pc = "idle"
    /\ IF confirmed
       THEN /\ dialogs' = [dialogs EXCEPT ![d] = [pc |-> "await1", folder |-> f]]
            /\ folderDeleteSent' = folderDeleteSent \cup {[folder |-> f, force |-> FALSE]}
       ELSE /\ dialogs' = [dialogs EXCEPT ![d] = [pc |-> "declined", folder |-> f]]
            /\ UNCHANGED folderDeleteSent
    /\ UNCHANGED <<notEmptyFailed, forceConfirmed>>

(* The answer to the unforced request: done, or the catch block with the   *)
(* second prompt when the message includes 'not empty'.                    *)
DeleteFolderAnswer(d, resp, confirmed) ==
    /\ dialogs[d].pc = "await1"
    /\ LET f == dialogs[d].folder
       IN /\ notEmptyFailed' = IF ~resp.ok /\ resp.kind = "FolderNotEmpty"
                               THEN notEmptyFailed \cup {f} ELSE notEmptyFailed
          /\ IF resp.ok
             THEN /\ dialogs' = [dialogs EXCEPT ![d].pc = "deleted"]
                  /\ UNCHANGED <<folderDeleteSent, forceConfirmed>>
             ELSE IF MessageIncludes(resp.message, <<"not", "empty">>)
             THEN IF confirmed
                  THEN /\ dialogs' = [dialogs EXCEPT ![d].pc = "await2"]
                       /\ folderDeleteSent' =
                              folderDeleteSent \cup {[folder |-> f, force |-> TRUE]}
                       /\ forceConfirmed' = forceConfirmed \cup {f}
                  ELSE /\ dialogs' = [dialogs EXCEPT ![d].pc = "declined2"]
                       /\ UNCHANGED <<folderDeleteSent, forceConfirmed>>
             ELSE /\ dialogs' = [dialogs EXCEPT ![d].pc = "failed"]
                  /\ UNCHANGED <<folderDeleteSent, forceConfirmed>>

(* The answer to the forced request. *)
DeleteFolderForcedAnswer(d, resp) ==
    /\ dialogs[d].pc = "await2"
    /\ dialogs' = [dialogs EXCEPT ![d].pc = IF resp.ok THEN "force_deleted"
                                                       ELSE "force_failed"]
    /\ UNCHANGED <<folderDeleteSent, notEmptyFailed, forceConfirmed>>

DialogNext ==
    \/ \E d \in Dialogs, f \in FolderIds, c \in BOOLEAN : DeleteFolderStart(d, f, c)
    \/ \E d \in Dialogs, resp \in DeleteResponses, c \in BOOLEAN :
            DeleteFolderAnswer(d, resp, c)
    \/ \E d \in Dialogs, resp \in DeleteResponses : DeleteFolderForcedAnswer(d, resp)

NextDialog == DialogNext /\ UNCHANGED <<catalogVars, lastOp, chunkVars, clientVars, folderVars, tagVars, slicing, bulkVars>>

SpecDialog == Init /\ [][NextDialog]_vars

(***************************************************************************)
(* The slicing of uploadChunked, for every file size and chunk size: the   *)
(* init request's total_chunks and the byte range [start, end) of every    *)
(* chunk sent.                                                             *)
(***************************************************************************)
(* Math.min(start + chunkSize, item.file.size) *)
ChunkEnd(start, chunkSize, size) ==
    IF start + chunkSize < size THEN start + chunkSize ELSE size

(* processQueue takes the chunked path for size > config.chunkSize; the    *)
(* init request carries total_chunks.                                      *)
SliceStart(size, chunkSize) ==
    /\ slicing.pc = "idle"
    /\ size > chunkSize
    /\ slicing' = [pc |-> "chunks", size |-> size, chunkSize |-> chunkSize,
                   totalChunks |-> CeilDiv(size, chunkSize), i |-> 0, sent |-> << >>]

(* One turn of the loop: chunk i is item.file.slice(start, end). *)
SliceChunk ==
    /\ slicing.pc = "chunks"
    /\ slicing.i < slicing.totalChunks
    /\ LET start == slicing.i * slicing.chunkSize
           end == ChunkEnd(start, slicing.chunkSize, slicing.size)
       IN slicing' = [slicing EXCEPT !.sent = Append(@, <<start, end>>),
                                     !.i = @ + 1]

(* The loop is left and complete is sent. *)
SliceComplete ==
    /\ slicing.pc = "chunks"
    /\ ~(slicing.i < slicing.totalChunks)
    /\ slicing' = [slicing EXCEPT !.pc = "complete"]

SlicingNext ==
    \/ \E size \in 1..MaxSliceSize, chunkSize \in 1..MaxSliceSize :
            SliceStart(size, chunkSize)
    \/ SliceChunk
    \/ SliceComplete

NextSlicing ==
    SlicingNext /\ UNCHANGED <<catalogVars, lastOp, chunkVars, clientVars, folderVars,
                               dialogVars, tagVars, bulkVars>>

SpecSlicing == Init /\ [][NextSlicing]_vars

(***************************************************************************)
(* RustMedia.Actions.delete(ids): one delete request after the other.      *)
(***************************************************************************)
BulkIds == {1, 2, 3}             \* media item ids passed to Actions.delete

RECURSIVE SeqsUpTo(_, _)
SeqsUpTo(S, n) ==
    IF n = 0 THEN {<< >>}
    ELSE LET shorter == SeqsUpTo(S, n - 1)
         IN shorter \cup {Append(q, x) : q \in shorter, x \in S}

(* delete(ids) up to its first await: the prompt, then the first request,  *)
(* or the end of an empty loop.                                            *)
DeleteStart(ids, confirmed) ==
    /\ bulk.pc = "idle"
    /\ bulk' = IF ~confirmed THEN [pc |-> "declined", ids |-> ids, k |-> 0, sent |-> << >>]
               ELSE IF Len(ids) = 0
               THEN [pc |-> "reloaded", ids |-> ids, k |-> 0, sent |-> << >>]
               ELSE [pc |-> "await", ids |-> ids, k |-> 1, sent |-> <<ids[1]>>]
    /\ UNCHANGED deletedIds

(* The loop with the try inside it: a failed request is passed over. *)
DeleteAnswerContinuing(ok) ==
    /\ bulk.pc = "await"
    /\ deletedIds' = IF ok THEN deletedIds \cup {bulk.ids[bulk.k]} ELSE deletedIds
    /\ bulk' = IF bulk.k < Len(bulk.ids)
               THEN [bulk EXCEPT !.k = @ + 1, !.sent = Append(@, bulk.ids[bulk.k + 1])]
               ELSE [bulk EXCEPT !.pc = "reloaded"]

(* The answer to the request for ids[k]: the next request, or the success  *)
(* message and the reload after the last one; a failure leaves the loop    *)
(* for the catch block.                                                    *)
DeleteAnswer(ok) ==
    /\ bulk.pc = "await"
    /\ IF ok
       THEN /\ deletedIds' = deletedIds \cup {bulk.ids[bulk.k]}
            /\ bulk' = IF bulk.k < Len(bulk.ids)
                       THEN [bulk EXCEPT !.k = @ + 1,
                                         !.sent = Append(@, bulk.ids[bulk.k + 1])]
                       ELSE [bulk EXCEPT !.pc = "reloaded"]
       ELSE /\ bulk' = [bulk EXCEPT !.pc = "failed"]
            /\ UNCHANGED deletedIds

BulkNext ==
    \/ \E ids \in SeqsUpTo(BulkIds, MaxBulk), c \in BOOLEAN : DeleteStart(ids, c)
    \/ \E ok \in BOOLEAN : DeleteAnswer(ok)

NextBulk ==
    BulkNext /\ UNCHANGED <<catalogVars, lastOp, chunkVars, clientVars, folderVars,
                            dialogVars, tagVars, slicing>>

SpecBulk == Init /\ [][NextBulk]_vars

(***************************************************************************)
(* Claims about the catalog.                                               *)
(***************************************************************************)
NoOperationInFlight == \A r \in Requests : upload[r].pc # "insert"

LiveIn(f) ==
    {i \in DOMAIN media_items :
        media_items[i].folder_id = f /\ media_items[i].deleted_at = FALSE}

RowsIn(f) == {i \in DOMAIN media_items : media_items[i].folder_id = f}

SizeOfRows(S) == SumOver(S, [i \in S |-> media_items[i].size])

(* C1: with no operation in flight, every folder's item_count is the      *)
(* number of non-deleted items whose folder_id is the folder, and its      *)
(* total_size is the sum of their sizes.                                   *)
C1_FolderStatsMatchLiveItems ==
    NoOperationInFlight =>
        \A f \in DOMAIN media_folders :
            /\ media_folders[f].item_count = Cardinality(LiveIn(f))
            /\ media_folders[f].total_size = SizeOfRows(LiveIn(f))

(* C2: a step that changes an item's folder_id from folder A to another    *)
(* folder B takes 1 and the item's size off A's item_count and total_size  *)
(* and adds them to B's in that same step, and leaves every other folder   *)
(* as it was; in every state each folder's item_count is the number of     *)
(* rows in it, so no item is counted by neither or by both folders.        *)
MovedFromTo(i, A, B) ==
    /\ i \in DOMAIN media_items /\ i \in DOMAIN media_items'
    /\ media_items[i].folder_id = A /\ media_items'[i].folder_id = B
    /\ A # B
    /\ A \in DOMAIN media_folders /\ A \in DOMAIN media_folders'
    /\ B \in DOMAIN media_folders /\ B \in DOMAIN media_folders'

C2_MoveIsAtomic ==
    /\ [](\A f \in DOMAIN media_folders :
            media_folders[f].item_count = Cardinality(RowsIn(f)))
    /\ [][\A i \in ItemIds, A \in FolderIds, B \in FolderIds :
            MovedFromTo(i, A, B) =>
                /\ media_folders'[A].item_count = media_folders[A].item_count - 1
                /\ media_folders'[A].total_size =
                        media_folders[A].total_size - media_items[i].size
                /\ media_folders'[B].item_count = media_folders[B].item_count + 1
                /\ media_folders'[B].total_size =
                        media_folders[B].total_size + media_items[i].size
                /\ \A g \in DOMAIN media_folders \ {A, B} :
                        media_folders'[g] = media_folders[g]]_vars

C2_Witness ==
    /\ lastOp[1] = "move"
    /\ lastOp[2] \in DOMAIN media_folders /\ lastOp[3] \in DOMAIN media_folders
    /\ \E i \in DOMAIN media_items :
            /\ media_items[i].folder_id = lastOp[3]
            /\ media_folders[lastOp[3]].total_size >= media_items[i].size

(***************************************************************************)
(* Claims about deduplication.                                             *)
(***************************************************************************)
(* C3: no two media_items rows have the same content hash.                 *)
C3_NoTwoRowsShareHash ==
    \A i \in DOMAIN media_items, j \in DOMAIN media_items :
        i # j => media_items[i].content_hash # media_items[j].content_hash

(* An upload of content equal to an item's has been answered with that    *)
(* item, and an item of another content is in the catalog too.             *)
C3_Witness ==
    /\ \E r \in Requests :
            /\ upload[r].pc = "done" /\ upload[r].outcome = "duplicate"
            /\ upload[r].item \in DOMAIN media_items
            /\ media_items[upload[r].item].content_hash = upload[r].hash
    /\ Cardinality(DOMAIN media_items) = 2

C5_NewRowUnlessLiveDuplicate ==
    [][\A r \in Requests :
        (/\ upload[r].pc = "insert" /\ upload'[r].pc = "done"
         /\ LiveWithHash(media_items, upload[r].hash) = {}) =>
            \E i \in DOMAIN media_items' \ DOMAIN media_items :
                media_items'[i].content_hash = upload[r].hash]_vars

(***************************************************************************)
(* Claims about chunked uploads.                                           *)
(***************************************************************************)
(* C6: for every chunked upload, received_chunks is the number of its      *)
(* chunk records with received = true and is at most total_chunks, also    *)
(* after a chunk index has been received again.                            *)
C6_ReceivedChunksCounted ==
    \A u \in DOMAIN media_chunked_uploads :
        /\ media_chunked_uploads[u].received_chunks = Cardinality(ReceivedRows(u))
        /\ media_chunked_uploads[u].received_chunks <= media_chunked_uploads[u].total_chunks

(* A chunk index of a fully received upload has just been received again. *)
C6_Witness ==
    /\ lastOp[1] = "receive_again"
    /\ lastOp[2] \in DOMAIN media_chunked_uploads
    /\ media_chunked_uploads[lastOp[2]].total_chunks = MaxChunks
    /\ media_chunked_uploads[lastOp[2]].received_chunks = MaxChunks

C7_CompleteOnlyAfterAllChunksAccepted ==
    \A id \in completeSent :
        \A idx \in 0..(TotalChunks(queueItems[id].size) - 1) : <<id, idx>> \in accepted

(* C8: when a queue item is cancelled while its chunked upload is          *)
(* initialised on the server and not completed, a cancel request carrying  *)
(* the upload's id is sent.                                                *)
C8_CancelReachesServer == cancelledOpen \subseteq cancelSent

(***************************************************************************)
(* Claims about the folder hierarchy.                                      *)
(***************************************************************************)
(* The proper ancestors of g, following parent_id at most n times. *)
RECURSIVE Up(_, _, _)
Up(g, folders, n) ==
    IF n = 0 \/ g \notin DOMAIN folders THEN {}
    ELSE IF folders[g].parent_id = NULL THEN {}
    ELSE {folders[g].parent_id} \cup Up(folders[g].parent_id, folders, n - 1)

AncestorsOf(g) == Up(g, media_folders, Cardinality(HierarchyIds))

(* C11: after a folder is deleted with force=true, neither the folder nor  *)
(* any of its descendants is left, no media item that was in one of them   *)
(* is left as a non-deleted row, and item_count and total_size of every    *)
(* ancestor of the deleted folder are as before.                           *)
C11_ForceDeleteRemovesSubtree ==
    [][lastOp'[1] = "force_delete" =>
        LET f == lastOp'[2]
            gone == {g \in DOMAIN media_folders : g = f \/ f \in AncestorsOf(g)}
        IN /\ \A g \in gone : g \notin DOMAIN media_folders'
           /\ \A i \in DOMAIN media_items :
                  media_items[i].folder_id \in gone =>
                      \/ i \notin DOMAIN media_items'
                      \/ media_items'[i].deleted_at = TRUE
           /\ \A a \in AncestorsOf(f) :
                  /\ a \in DOMAIN media_folders'
                  /\ media_folders'[a].item_count = media_folders[a].item_count
                  /\ media_folders'[a].total_size = media_folders[a].total_size]_vars

(* A forced delete has just removed a folder with a subfolder and an item; *)
(* its parent is left and holds an item of its own.                        *)
C11_Witness ==
    /\ lastOp[1] = "force_delete"
    /\ lastOp[3].folders >= 2
    /\ lastOp[3].items >= 1
    /\ lastOp[3].parent \in DOMAIN media_folders
    /\ media_folders[lastOp[3].parent].item_count >= 1

(* C12: a delete request with force=true is sent for a folder only after  *)
(* an unforced delete request for it failed with the not-empty error and   *)
(* the user confirmed the second prompt; a step in which a prompt is       *)
(* declined or the unforced request fails otherwise sends no request.      *)
C12_ForceOnlyAfterNotEmptyAndConfirm ==
    /\ [](\A r \in folderDeleteSent :
            r.force =>
                /\ [folder |-> r.folder, force |-> FALSE] \in folderDeleteSent
                /\ r.folder \in notEmptyFailed
                /\ r.folder \in forceConfirmed)
    /\ [][\A d \in Dialogs :
            (/\ dialogs'[d].pc # dialogs[d].pc
             /\ dialogs'[d].pc \in {"declined", "declined2", "failed"}) =>
                folderDeleteSent' = folderDeleteSent]_vars

(* One call sent the forced request after the not-empty failure and the    *)
(* confirmation; the other call's unforced request failed otherwise.       *)
C12_Witness ==
    \E d \in Dialogs, e \in Dialogs :
        /\ dialogs[d].pc = "await2"
        /\ [folder |-> dialogs[d].folder, force |-> TRUE] \in folderDeleteSent
        /\ dialogs[e].pc = "failed"
        /\ dialogs[e].folder \notin notEmptyFailed

(* C13: the parent relation of folders is acyclic after any creates and   *)
(* moves, and a move under the folder itself or one of its descendants is  *)
(* rejected and leaves every folder's parent as it was.                    *)
C13_FolderTreeAcyclic ==
    /\ [](\A g \in DOMAIN media_folders : g \notin AncestorsOf(g))
    /\ [][lastOp'[1] = "move_folder_rejected" =>
            /\ DOMAIN media_folders' = DOMAIN media_folders
            /\ \A g \in DOMAIN media_folders :
                    media_folders'[g].parent_id = media_folders[g].parent_id]_vars

(* A move of a folder under its grandchild has just been rejected. *)
C13_Witness ==
    /\ lastOp[1] = "move_folder_rejected"
    /\ lastOp[3] \in DOMAIN media_folders
    /\ lastOp[2] \in AncestorsOf(lastOp[3])
    /\ media_folders[lastOp[3]].parent_id # lastOp[2]

(* C14: no two folders with the same parent have the same slug, two root   *)
(* folders (parent_id NULL) included.                                      *)
C14_SiblingSlugsUnique ==
    \A g \in DOMAIN media_folders, h \in DOMAIN media_folders :
        (g # h /\ media_folders[g].parent_id = media_folders[h].parent_id) =>
            folder_slug[g] # folder_slug[h]

(***************************************************************************)
(* Claims about soft delete, hard delete and the one-level stats.          *)
(***************************************************************************)
(* C15: a step that sets or clears deleted_at of an item leaves item_count *)
(* and total_size of every folder as they were, and a folder's item_count  *)
(* counts its soft-deleted rows with the others.                           *)
C15_SoftDeleteKeepsStats ==
    /\ [][\A i \in DOMAIN media_items \cap DOMAIN media_items' :
            media_items'[i].deleted_at # media_items[i].deleted_at =>
                media_folders' = media_folders]_vars
    /\ [](\A f \in DOMAIN media_folders :
            \A i \in RowsIn(f) :
                media_items[i].deleted_at = TRUE => media_folders[f].item_count >= 1)

(* An item has just been restored after a soft delete; it is the one row   *)
(* of its folder, whose item_count is 1.                                   *)
C15_Witness ==
    /\ lastOp[1] = "restore"
    /\ lastOp[2] \in DOMAIN media_items
    /\ media_items[lastOp[2]].folder_id \in DOMAIN media_folders
    /\ media_folders[media_items[lastOp[2]].folder_id].item_count = 1
    /\ media_folders[media_items[lastOp[2]].folder_id].total_size > 0

(* C16: a step that deletes a media_items row leaves no media_thumbnails  *)
(* row and no media_item_tags row of the item, lowers its folder's         *)
(* item_count by 1 and total_size by the item's size, and lowers the       *)
(* usage_count of every tag the item carried by 1.                         *)
C16_HardDeleteCascades ==
    [][\A i \in DOMAIN media_items \ DOMAIN media_items' :
        /\ \A t \in media_thumbnails' : t.media_id # i
        /\ \A r \in media_item_tags' : r.media_id # i
        /\ \A f \in DOMAIN media_folders :
              media_items[i].folder_id = f =>
                  /\ f \in DOMAIN media_folders'
                  /\ media_folders'[f].item_count = media_folders[f].item_count - 1
                  /\ media_folders'[f].total_size =
                          media_folders[f].total_size - media_items[i].size
        /\ \A t \in DOMAIN media_tags :
              [media_id |-> i, tag_id |-> t] \in media_item_tags =>
                  /\ t \in DOMAIN media_tags'
                  /\ media_tags'[t].usage_count = media_tags[t].usage_count - 1]_vars

(* An item in a folder, with a thumbnail and two tags, has just been hard  *)
(* deleted.                                                                *)
C16_Witness ==
    /\ lastOp[1] = "hard_delete"
    /\ lastOp[2] \in DOMAIN media_folders
    /\ lastOp[3].tags = 2
    /\ lastOp[3].thumbnails >= 1

(* C18: every tag's usage_count is the number of media_item_tags rows     *)
(* that reference it, also after rows went by cascade with a hard-deleted  *)
(* item.                                                                   *)
C18_UsageCountMatchesAssociations ==
    \A t \in DOMAIN media_tags :
        media_tags[t].usage_count =
            Cardinality({r \in media_item_tags : r.tag_id = t})

(* A hard delete has just removed an item's tag associations by cascade;   *)
(* a tag it carried is still carried by the other item.                    *)
C18_Witness ==
    /\ lastOp[1] = "hard_delete"
    /\ lastOp[3].tags >= 1
    /\ \E t \in DOMAIN media_tags :
            /\ media_tags[t].usage_count = 1
            /\ \E r \in media_item_tags : r.tag_id = t
    /\ \E t \in DOMAIN media_tags : media_tags[t].usage_count = 0

(* C17: a step changes item_count or total_size only of a folder that     *)
(* directly contains, before or after the step, an item the step inserts,  *)
(* moves or deletes; every other folder, ancestors included, keeps its     *)
(* stats.                                                                  *)
C17_StatsAreOneLevel ==
    [][\A g \in DOMAIN media_folders \cap DOMAIN media_folders' :
        (\/ media_folders'[g].item_count # media_folders[g].item_count
         \/ media_folders'[g].total_size # media_folders[g].total_size) =>
            \E i \in ItemIds :
                \/ /\ i \in DOMAIN media_items /\ i \notin DOMAIN media_items'
                   /\ media_items[i].folder_id = g
                \/ /\ i \notin DOMAIN media_items /\ i \in DOMAIN media_items'
                   /\ media_items'[i].folder_id = g
                \/ /\ i \in DOMAIN media_items /\ i \in DOMAIN media_items'
                   /\ media_items'[i].folder_id # media_items[i].folder_id
                   /\ g \in {media_items[i].folder_id, media_items'[i].folder_id}]_vars

(* An item is in a subfolder, which counts it; the parent folder holds no  *)
(* item and its stats are 0.                                               *)
C17_Witness ==
    \E c \in DOMAIN media_folders, i \in DOMAIN media_items :
        /\ media_folders[c].parent_id \in DOMAIN media_folders
        /\ media_items[i].folder_id = c
        /\ media_folders[c].item_count = 1
        /\ media_folders[c].total_size = media_items[i].size
        /\ media_folders[media_folders[c].parent_id].item_count = 0
        /\ media_folders[media_folders[c].parent_id].total_size = 0

(***************************************************************************)
(* Claims about the slicing and the queue's one upload at a time.          *)
(***************************************************************************)
(* C19: for a file of S bytes and a chunk size C with S > C > 0,           *)
(* total_chunks is ceil(S/C), that is (total_chunks-1)*C < S <=            *)
(* total_chunks*C; the chunks sent start at 0, each starts where the one   *)
(* before ends, each has C bytes but chunk total_chunks-1, which has 1..C  *)
(* bytes, and once all are sent they end at S.                             *)
C19_ChunksCoverFile ==
    slicing.pc # "idle" =>
        LET S == slicing.size
            C == slicing.chunkSize
            n == slicing.totalChunks
            sent == slicing.sent
        IN /\ (n - 1) * C < S /\ S <= n * C
           /\ Len(sent) <= n
           /\ \A k \in 1..Len(sent) :
                  /\ sent[k][1] = (IF k = 1 THEN 0 ELSE sent[k - 1][2])
                  /\ IF k < n
                     THEN sent[k][2] - sent[k][1] = C
                     ELSE sent[k][2] - sent[k][1] \in 1..C
           /\ slicing.pc = "complete" => (Len(sent) = n /\ sent[n][2] = S)

(* A file has been sent in three chunks, the last one shorter. *)
C19_Witness ==
    /\ slicing.pc = "complete"
    /\ Len(slicing.sent) = 3
    /\ slicing.sent[3][2] - slicing.sent[3][1] < slicing.chunkSize

(* C20: at most one queue item is in status uploading or processing, and  *)
(* the requests in flight are those of that item: the running processQueue *)
(* call is the one that holds the uploading flag.                          *)
C20_OneUploadAtATime ==
    LET active == {it \in DOMAIN queueItems :
                       queueItems[it].status \in {"uploading", "processing"}}
    IN /\ Cardinality(active) <= 1
       /\ uploading <=> (proc.pc # "idle")
       /\ IF proc.pc = "idle" THEN active = {} ELSE active = {proc.item}

(* A cancelled item's chunked upload is still running while a pending item *)
(* waits in the queue.                                                     *)
C20_Witness ==
    /\ proc.pc = "chunk"
    /\ \A k \in 1..Len(queue) : queue[k] # proc.item
    /\ \E k \in 1..Len(queue) : queueItems[queue[k]].status = "pending"

(***************************************************************************)
(* Claims about the queue's progress, cancel and the item statuses.        *)
(***************************************************************************)
RequestInFlight == proc.pc \in {"init", "chunk", "complete", "simple"}

InQueue(it) == \E k \in 1..Len(queue) : queue[k] = it

(* C21: once every request the client issued has been answered, every     *)
(* item in the queue is in status complete or error: no item is left       *)
(* uploading or pending with nothing that can move it.                     *)
C21_QueueNeverStuck ==
    ~RequestInFlight =>
        \A k \in 1..Len(queue) : queueItems[queue[k]].status \in {"complete", "error"}

(* An item cancel has removed from the queue. *)
Cancelled(it) == it \in DOMAIN queueItems /\ ~InQueue(it)

(* C22: no step sends a complete request or a simple-upload request for an *)
(* item that cancel has removed from the queue before the step.            *)
C22_NoRequestAfterCancel ==
    [][\A it \in QueueIds :
        Cancelled(it) =>
            /\ it \notin completeSent' \ completeSent
            /\ ~(proc'.pc = "simple" /\ proc'.item = it /\ proc' # proc)]_vars

(* C23: the status of a queue item only moves pending -> uploading ->      *)
(* (processing ->) complete or error, complete and error are final, and a  *)
(* step sends a request only for an item that is uploading or processing.  *)
C23_StatusMovesForward ==
    [][/\ \A it \in DOMAIN queueItems :
              \/ queueItems'[it].status = queueItems[it].status
              \/ <<queueItems[it].status, queueItems'[it].status>> \in
                     {<<"pending", "uploading">>, <<"uploading", "processing">>,
                      <<"uploading", "complete">>, <<"uploading", "error">>,
                      <<"processing", "complete">>, <<"processing", "error">>}
       /\ (proc' # proc /\ proc'.pc \in {"init", "chunk", "complete", "simple"}) =>
              /\ proc'.item \in DOMAIN queueItems'
              /\ queueItems'[proc'.item].status \in {"uploading", "processing"}
              /\ proc'.item \in DOMAIN queueItems =>
                     queueItems[proc'.item].status \notin {"complete", "error"}]_vars

(* One item has ended complete and the other in error, after a chunked     *)
(* upload went through processing; nothing is running.                     *)
C23_Witness ==
    /\ proc.pc = "idle"
    /\ completeSent # {}
    /\ \E a \in DOMAIN queueItems, b \in DOMAIN queueItems :
            queueItems[a].status = "complete" /\ queueItems[b].status = "error"

(***************************************************************************)
(* Claims about the sign of the stats, bulk delete and file validation.    *)
(***************************************************************************)
(* C24: item_count and total_size of every folder are never negative.      *)
C24_StatsNeverNegative ==
    \A f \in DOMAIN media_folders :
        media_folders[f].item_count >= 0 /\ media_folders[f].total_size >= 0

(* The first n elements of a sequence. *)
Prefix(q, n) == [j \in 1..n |-> q[j]]

(* C25: the delete requests sent are those for the first k ids, in list    *)
(* order, each sent after the one before succeeded; after a failure        *)
(* nothing more is sent and the ids before the failing one stay deleted;   *)
(* the success message and the reload come only after every request        *)
(* succeeded.                                                              *)
C25_BulkDeleteStopsAtFailure ==
    /\ [](/\ bulk.k <= Len(bulk.ids)
          /\ bulk.sent = Prefix(bulk.ids, bulk.k)
          /\ bulk.pc \in {"await", "failed"} =>
                 deletedIds = {bulk.ids[j] : j \in 1..(bulk.k - 1)}
          /\ bulk.pc = "reloaded" =>
                 /\ bulk.k = Len(bulk.ids)
                 /\ deletedIds = {bulk.ids[j] : j \in 1..Len(bulk.ids)}
          /\ bulk.pc = "declined" => (bulk.sent = << >> /\ deletedIds = {}))
    /\ [][bulk.pc = "failed" => (bulk' = bulk /\ deletedIds' = deletedIds)]_vars

(* The second of three requests has failed: the first id is deleted, the   *)
(* third was never asked for.                                              *)
C25_Witness ==
    /\ bulk.pc = "failed"
    /\ Len(bulk.ids) = 3
    /\ bulk.k = 2
    /\ bulk.ids[3] \notin deletedIds
    /\ deletedIds = {bulk.ids[1]}

(* A file addFiles is to reject: too large, or the lower-cased text after  *)
(* the last dot of its name is not in the allowed list.                    *)
Extension(name) == toLowerCase(name[Len(name)])
Rejected(f) == f.size > MaxFileSize \/ Extension(f.name) \notin AllowedExtensions
Admitted(f) == ~Rejected(f)

(* C26: no queue item, and so no request, ever exists for a rejected file; *)
(* a call of addFiles appends to the queue the files of the batch that are *)
(* not rejected, in their order and as they were, and leaves the items     *)
(* already there as they were, but for the one processQueue starts; a      *)
(* batch of rejected files alone changes nothing and sends nothing.        *)
C26_RejectedFilesNeverQueued ==
    /\ [](/\ \A it \in DOMAIN queueItems :
                Admitted([size |-> queueItems[it].size, name |-> queueItems[it].name])
          /\ proc.item # NULL => proc.item \in DOMAIN queueItems)
    /\ [][lastOp'[1] = "addFiles" =>
            LET files == lastOp'[2]
                valid == SelectSeq(files, Admitted)
                n == Len(queue)
            IN /\ Len(queue') = n + Len(valid)
               /\ \A j \in 1..n : queue'[j] = queue[j]
               /\ \A j \in 1..Len(valid) :
                     /\ queue'[n + j] \notin DOMAIN queueItems
                     /\ queueItems'[queue'[n + j]].size = valid[j].size
                     /\ queueItems'[queue'[n + j]].name = valid[j].name
               /\ \A j, k \in 1..Len(valid) : j # k => queue'[n + j] # queue'[n + k]
               /\ \A it \in DOMAIN queueItems :
                     \/ queueItems'[it] = queueItems[it]
                     \/ /\ queueItems[it].status = "pending"
                        /\ ~uploading
                        /\ queueItems'[it] = [queueItems[it] EXCEPT !.status = "uploading"]
               /\ valid = << >> =>
                     /\ queue' = queue /\ queueItems' = queueItems
                     /\ proc' = proc /\ uploading' = uploading]_vars

(* A batch of a rejected file and a good one was added: the good one is    *)
(* queued and its upload has started.                                      *)
C26_Witness ==
    /\ lastOp[1] = "addFiles"
    /\ Len(lastOp[2]) = 2
    /\ Rejected(lastOp[2][1])
    /\ Admitted(lastOp[2][2])
    /\ Len(queue) = 1
    /\ queueItems[queue[1]].name = lastOp[2][2].name
    /\ queueItems[queue[1]].status = "uploading"

====
